---- MODULE Spec2Model ----
(***************************************************************************)
(* Model of inx-builder: the configuration model (config.py), the          *)
(* template expander (builder.py) and the command surface (cli.py).        *)
(*                                                                         *)
(* Python strings are sequences of tokens: a display name is a sequence of *)
(* one-character tokens, a keyword such as a type is a one-token sequence, *)
(* and string concatenation is \o.  None is the one-token sequence         *)
(* <<"<None>">>; for the numeric fields (min, max, default) None is <<>>   *)
(* and the number n is <<n>>.                                              *)
(***************************************************************************)
EXTENDS Integers, Sequences, FiniteSets, TLC

\* ---------------------------------------------------------------- bounds
MaxNameLen == 2
MaxParams == 2

\* ---------------------------------------------------------------- strings
None == <<"<None>">>
NoneNum == <<>>
S(t) == <<t>>

\* Python truthiness of a string or None: None and "" are falsy.
Falsy(x) == x = None \/ x = <<>>

\* str(x) as an f-string formats it.
Str(x) == IF x = None THEN S("None") ELSE x

\* str.lower(), character by character.
Lower(s) == [i \in 1..Len(s) |-> IF s[i] = "G" THEN "g" ELSE s[i]]

\* str.replace(a, b) for a one-character a.
Replace(s, a, b) == [i \in 1..Len(s) |-> IF s[i] = a THEN b ELSE s[i]]

RECURSIVE SeqsUpTo(_, _)
SeqsUpTo(X, n) ==
    IF n = 0 THEN {<<>>}
    ELSE LET shorter == SeqsUpTo(X, n - 1)
         IN  shorter \cup {Append(s, x) : s \in shorter, x \in X}

Range(s) == {s[i] : i \in 1..Len(s)}

\* dict.get(k, d) / a keyword argument with a default.
Get(d, k, dflt) == IF k \in DOMAIN d THEN d[k] ELSE dflt

\* ---------------------------------------------------------------- errors
NoErr == [exc |-> "", text |-> "", args |-> <<>>]
Raise(exc, text, args) == [exc |-> exc, text |-> text, args |-> args]

\* ---------------------------------------------------------------- Parameter
ParamFields ==
    {"name", "type", "default", "gui_text", "gui_description", "min", "max",
     "options", "pages", "appearance"}

\* Parameter(**p): the dataclass constructor, defaults of config.py:17-24.
ParameterCtorErr(p) ==
    IF ~(DOMAIN p \subseteq ParamFields) \/ ~({"name", "type"} \subseteq DOMAIN p)
    THEN Raise("TypeError", "__init__() arguments", <<>>)
    ELSE NoErr

ParameterCtor(p) ==
    [cls |-> "Parameter",
     name |-> p.name,
     type |-> p.type,
     default |-> Get(p, "default", NoneNum),
     gui_text |-> Get(p, "gui_text", None),
     gui_description |-> Get(p, "gui_description", None),
     min |-> Get(p, "min", NoneNum),
     max |-> Get(p, "max", NoneNum),
     options |-> Get(p, "options", <<>>),
     pages |-> Get(p, "pages", <<>>),
     appearance |-> Get(p, "appearance", S("full"))]

ParamTypes ==
    {S("int"), S("float"), S("string"), S("boolean"), S("optiongroup"), S("notebook")}

\* Parameter.validate() without its check of the bounds.
ParameterValidateNoBoundsCheck(p) ==
    IF p.type \notin ParamTypes
    THEN Raise("ValueError", "Invalid parameter type: ", <<p.type>>)
    ELSE IF p.type = S("optiongroup") /\ p.options = <<>>
    THEN Raise("ValueError", "Optiongroup parameters require options", <<>>)
    ELSE IF p.type = S("notebook") /\ p.pages = <<>>
    THEN Raise("ValueError", "Notebook parameters require pages", <<>>)
    ELSE NoErr

\* Parameter.validate(): the error it raises, NoErr when it returns.
ParameterValidate(p) ==
    IF p.type \notin ParamTypes
    THEN Raise("ValueError", "Invalid parameter type: ", <<p.type>>)
    ELSE IF p.type = S("optiongroup") /\ p.options = <<>>
    THEN Raise("ValueError", "Optiongroup parameters require options", <<>>)
    ELSE IF p.type = S("notebook") /\ p.pages = <<>>
    THEN Raise("ValueError", "Notebook parameters require pages", <<>>)
    ELSE IF p.min # NoneNum /\ p.max # NoneNum /\ p.min[1] > p.max[1]
    THEN Raise("ValueError", "min (a) cannot be greater than max (b)",
               <<S(ToString(p.min[1])), S(ToString(p.max[1]))>>)
    ELSE NoErr

\* ---------------------------------------------------------------- ExtensionConfig
ConfigFields ==
    {"name", "type", "id", "author", "email", "description", "version",
     "license", "requires", "parameters"}

ExtensionTypes == {S("effect"), S("input"), S("output"), S("render"), S("custom")}

\* The generated id of __post_init__ (config.py:58-59).

DefaultId(type, name) ==
    S("org.inkscape.") \o Str(type) \o S(".")
        \o Replace(Replace(Lower(name), " ", "_"), "-", "_")

\* ExtensionConfig(**data): a missing name or an unknown key is a TypeError;
\* name None with no id is an AttributeError of None.lower().
ConfigCtorErr(data) ==
    IF ~(DOMAIN data \subseteq ConfigFields) \/ "name" \notin DOMAIN data
    THEN Raise("TypeError", "__init__() arguments", <<>>)
    ELSE IF Falsy(Get(data, "id", None)) /\ data.name = None
    THEN Raise("AttributeError", "'NoneType' object has no attribute 'lower'", <<>>)
    ELSE NoErr

ConfigCtor(data) ==
    LET type == Get(data, "type", S("effect"))
        id == Get(data, "id", None)
    IN  [cls |-> "ExtensionConfig",
         name |-> data.name,
         type |-> type,
         id |-> IF Falsy(id) THEN DefaultId(type, data.name) ELSE id,
         author |-> Get(data, "author", S("Anonymous")),
         email |-> Get(data, "email", None),
         description |-> Get(data, "description", S("Inkscape Extension")),
         version |-> Get(data, "version", S("1.0.0")),
         license |-> Get(data, "license", S("GPL-2.0-or-later")),
         requires |-> Get(data, "requires", <<>>),
         parameters |-> Get(data, "parameters", <<>>)]

\* asdict(p): the Parameter as a plain dict.
ParamAsDict(p) == [k \in ParamFields |-> p[k]]

\* ExtensionConfig.to_dict().

ToDict(c) ==
    [k \in ConfigFields |->
        IF k = "parameters"
        THEN [i \in 1..Len(c.parameters) |-> ParamAsDict(c.parameters[i])]
        ELSE c[k]]

\* ExtensionConfig.from_dict(data): parameters are popped, the config is built
\* from the rest, then every parameter record becomes a Parameter.
WithoutParams(data) == [k \in DOMAIN data \ {"parameters"} |-> data[k]]

FromDictErr(data) ==
    LET params == Get(data, "parameters", <<>>)
        bad == {i \in 1..Len(params) : ParameterCtorErr(params[i]) # NoErr}
    IN  IF ConfigCtorErr(WithoutParams(data)) # NoErr
        THEN ConfigCtorErr(WithoutParams(data))
        ELSE IF bad # {}
        THEN ParameterCtorErr(params[CHOOSE i \in bad : \A j \in bad : i <= j])
        ELSE NoErr

\* from_dict rebuilding the parameters in reverse order.
FromDictReversed(data) ==
    LET params == Get(data, "parameters", <<>>)
        n == Len(params)
    IN  [ConfigCtor(WithoutParams(data)) EXCEPT
            !.parameters = [i \in 1..n |-> ParameterCtor(params[n + 1 - i])]]

\* ExtensionConfig.from_dict(data): the configuration it returns.
FromDict(data) ==
    LET params == Get(data, "parameters", <<>>)
    IN  [ConfigCtor(WithoutParams(data)) EXCEPT
            !.parameters = [i \in 1..Len(params) |-> ParameterCtor(params[i])]]

\* ExtensionConfig.validate(): the error it raises, NoErr when it returns.
RECURSIVE FirstParamErr(_, _)
FirstParamErr(params, i) ==
    IF i > Len(params) THEN NoErr
    ELSE IF ParameterValidate(params[i]) # NoErr THEN ParameterValidate(params[i])
    ELSE FirstParamErr(params, i + 1)


ConfigValidate(c) ==
    IF Falsy(c.name)
    THEN Raise("ValueError", "Extension name is required", <<>>)
    ELSE IF c.type \notin ExtensionTypes
    THEN Raise("ValueError", "Invalid extension type: ", <<Str(c.type)>>)
    ELSE FirstParamErr(c.parameters, 1)

\* ---------------------------------------------------------------- JSON
\* json.dump / json.load (and yaml.safe_load of the same text) on the values a
\* configuration holds: None <-> null, str <-> quoted string, number <-> numeral,
\* list <-> array, dict <-> object.
NumRange == {0, 1, 10, 100}

JStr(s) == IF s = None THEN S("null") ELSE S("\"") \o s \o S("\"")
UnJStr(j) == IF j = S("null") THEN None ELSE SubSeq(j, 2, Len(j) - 1)
JNum(x) == IF x = NoneNum THEN S("null") ELSE S(ToString(x[1]))
UnJNum(j) == IF j = S("null") THEN NoneNum ELSE <<CHOOSE n \in NumRange : ToString(n) = j[1]>>
JStrList(l) == [i \in 1..Len(l) |-> JStr(l[i])]
UnJStrList(l) == [i \in 1..Len(l) |-> UnJStr(l[i])]
JPage(pg) == [k \in DOMAIN pg |-> JStr(pg[k])]
UnJPage(pg) == [k \in DOMAIN pg |-> UnJStr(pg[k])]

NumFields == {"default", "min", "max"}

JParam(p) ==
    [k \in DOMAIN p |->
        IF k \in NumFields THEN JNum(p[k])
        ELSE IF k = "options" THEN JStrList(p[k])
        ELSE IF k = "pages" THEN [i \in 1..Len(p[k]) |-> JPage(p[k][i])]
        ELSE JStr(p[k])]

UnJParam(p) ==
    [k \in DOMAIN p |->
        IF k \in NumFields THEN UnJNum(p[k])
        ELSE IF k = "options" THEN UnJStrList(p[k])
        ELSE IF k = "pages" THEN [i \in 1..Len(p[k]) |-> UnJPage(p[k][i])]
        ELSE UnJStr(p[k])]

JsonDump(d) ==
    [k \in DOMAIN d |->
        IF k = "parameters" THEN [i \in 1..Len(d[k]) |-> JParam(d[k][i])]
        ELSE IF k = "requires" THEN JStrList(d[k])
        ELSE JStr(d[k])]

JsonLoad(j) ==
    [k \in DOMAIN j |->
        IF k = "parameters" THEN [i \in 1..Len(j[k]) |-> UnJParam(j[k][i])]
        ELSE IF k = "requires" THEN UnJStrList(j[k])
        ELSE UnJStr(j[k])]

\* ---------------------------------------------------------------- load / save
\* A config path is [file, suffix]; the disk maps the paths that exist to text.
LoadSuffixes == {".json", ".yaml", ".yml"}

\* load_config(filepath): the error raised, NoErr when a config is returned.
LoadConfigErr(dsk, path) ==
    IF path \notin DOMAIN dsk
    THEN Raise("FileNotFoundError", "Config file not found: ", <<S(path.file)>>)
    ELSE IF path.suffix \notin LoadSuffixes
    THEN Raise("ValueError", "Unsupported config file format: ", <<S(path.suffix)>>)
    ELSE FromDictErr(JsonLoad(dsk[path]))

LoadConfig(dsk, path) == FromDict(JsonLoad(dsk[path]))

\* save_config(config, filepath): the disk afterwards.
SaveConfig(dsk, c, path) ==
    [q \in DOMAIN dsk \cup {path} |-> IF q = path THEN JsonDump(ToDict(c)) ELSE dsk[q]]

\* ---------------------------------------------------------------- template tree
\* A file name is a sequence of tokens, the stem and then its dotted parts
\* (<<"README", ".md", ".j2">>); a relative path is a sequence of names.  The
\* templates root is tmpl = [dirs, files, root]: the template-set directories
\* that exist, the files each of them holds (relative to the set directory) and
\* the files that resolve directly under the templates root.
EmptyDict == [k \in {} |-> None]

\* pathlib suffix of a name.
Suffix(name) == IF Len(name) > 1 THEN name[Len(name)] ELSE ""

\* template_dir.rglob('*.j2'): at any depth.
IsTemplateFile(path) == Suffix(path[Len(path)]) = ".j2"
TemplateFiles(files) == {f \in files : IsTemplateFile(f)}

\* template_dir.iterdir() filtered by is_file() and suffix != '.j2'.
StaticItems(files) == {f \in files : Len(f) = 1 /\ Suffix(f[1]) # ".j2"}

\* str(rel_path).replace('.j2', ''): every occurrence, in every component.
NotJ2(tok) == tok # ".j2"
OutputFile(path) == [i \in 1..Len(path) |-> SelectSeq(path[i], NotJ2)]

\* ---------------------------------------------------------------- ExtensionBuilder
IsDict(x) == "cls" \notin DOMAIN x

\* ExtensionBuilder.__init__(config, template_name): the error raised.
BuilderInitErr(cfg) == IF IsDict(cfg) THEN FromDictErr(cfg) ELSE NoErr

BuilderConfig(cfg) == IF IsDict(cfg) THEN FromDict(cfg) ELSE cfg

\* template_name or self.config.type or 'basic_effect'

ResolveTemplate(template, c) ==
    IF ~Falsy(template) THEN template
    ELSE IF ~Falsy(c.type) THEN c.type
    ELSE S("basic_effect")

\* str.title() of the words of name.split(), joined.
IsLetter(ch) == ch \in {"G", "g", "r", "R"}
Upper(ch) == IF ch = "g" THEN "G" ELSE IF ch = "r" THEN "R" ELSE ch
LowerCh(ch) == IF ch = "G" THEN "g" ELSE IF ch = "R" THEN "r" ELSE ch
Title(s) ==
    [i \in 1..Len(s) |->
        IF i = 1 \/ ~IsLetter(s[i - 1]) THEN Upper(s[i]) ELSE LowerCh(s[i])]
NotSpace(ch) == ch # " "

\* ExtensionBuilder._prepare_context(); year and platform come from the host.
PrepareContext(c) ==
    [config |-> c,
     ext_name |-> Replace(Lower(c.name), " ", "_"),
     ext_class |-> SelectSeq(Title(c.name), NotSpace),
     year |-> S("<year>"),
     platform |-> S("<platform>"),
     parameters |-> c.parameters]

\* The text a template renders to, the bytes of a static file, the saved config.
Rendered(rootPath, ctx) == [kind |-> "rendered", template |-> rootPath, context |-> ctx]
Bytes(set, path) == [kind |-> "bytes", set |-> set, path |-> path]
ConfigJson(c) == [kind |-> "json", data |-> JsonDump(ToDict(c))]

\* Writing a file that leaves a file already in the output tree as it is.
WriteFileKeepExisting(files, path, content) ==
    [q \in DOMAIN files \cup {path} |->
        IF q \in DOMAIN files THEN files[q] ELSE content]

\* Writing a file of the output tree.
WriteFile(files, path, content) ==
    [q \in DOMAIN files \cup {path} |-> IF q = path THEN content ELSE files[q]]

ExtensionJson == << <<"extension", ".json">> >>

\* ExtensionBuilder._generate_parameter(param_config): the markup, as tokens.
RECURSIVE OptionsXml(_, _)
OptionsXml(opts, i) ==
    IF i > Len(opts) THEN <<>>
    ELSE S("  <_option value=\"") \o Lower(opts[i]) \o S("\">") \o opts[i]
             \o S("</_option>\n") \o OptionsXml(opts, i + 1)

RECURSIVE PagesXml(_, _)
PagesXml(pages, i) ==
    IF i > Len(pages) THEN <<>>
    ELSE S("  <page name=\"") \o pages[i].name \o S("\" gui-text=\"")
             \o pages[i].gui_text \o S("\"/>\n") \o PagesXml(pages, i + 1)

GenerateParameter(pcfg) ==
    LET ptype == Get(pcfg, "type", S("string"))
    IN  IF ptype = S("optiongroup")
        THEN S("<param name=\"") \o pcfg.name
                 \o S("\" type=\"optiongroup\" appearance=\"")
                 \o Get(pcfg, "appearance", S("full")) \o S("\">\n")
                 \o S("  <_gui-text>") \o Get(pcfg, "gui_text", pcfg.name)
                 \o S("</_gui-text>\n")
                 \o OptionsXml(Get(pcfg, "options", <<>>), 1)
                 \o (IF ~Falsy(Get(pcfg, "default", None))
                     THEN S("  <_default>") \o pcfg.default \o S("</_default>\n")
                     ELSE <<>>)
                 \o S("</param>")
        ELSE IF ptype = S("notebook")
        THEN S("<param name=\"") \o pcfg.name \o S("\" type=\"notebook\">\n")
                 \o PagesXml(Get(pcfg, "pages", <<>>), 1) \o S("</param>")
        ELSE S("<param name=\"") \o pcfg.name \o S("\" type=\"") \o ptype \o S("\"")
                 \o (IF ptype \in {S("int"), S("float")} /\ Get(pcfg, "min", None) # None
                     THEN S(" min=\"") \o pcfg.min \o S("\"") ELSE <<>>)
                 \o (IF ptype \in {S("int"), S("float")} /\ Get(pcfg, "max", None) # None
                     THEN S(" max=\"") \o pcfg.max \o S("\"") ELSE <<>>)
                 \o S("\n      gui-text=\"")
                 \o Get(pcfg, "gui_text", Title(Replace(pcfg.name, "_", " ")))
                 \o S("\"")
                 \o (IF ~Falsy(Get(pcfg, "gui_description", None))
                     THEN S(" gui-description=\"") \o pcfg.gui_description \o S("\"")
                     ELSE <<>>)
                 \o (IF Get(pcfg, "default", None) # None
                     THEN S(">") \o pcfg.default \o S("</param>")
                     ELSE S("/>"))

\* args.options.split(',') with each piece stripped of blanks.
RECURSIVE SplitComma(_, _, _)
SplitComma(s, i, cur) ==
    IF i > Len(s) THEN <<SelectSeq(cur, NotSpace)>>
    ELSE IF s[i] = "," THEN <<SelectSeq(cur, NotSpace)>> \o SplitComma(s, i + 1, <<>>)
    ELSE SplitComma(s, i + 1, Append(cur, s[i]))

\* cli.py:98-110: the param_config of the param command.
ParamConfig(a) ==
    LET base ==
            [name |-> a.name,
             type |-> a.type,
             gui_text |-> IF Falsy(a.gui_text)
                          THEN Title(Replace(a.name, "_", " ")) ELSE a.gui_text,
             gui_description |-> IF Falsy(a.gui_description) THEN <<>> ELSE a.gui_description,
             default |-> a.default,
             min |-> a.min,
             max |-> a.max,
             appearance |-> a.appearance]
    IN  IF ~Falsy(a.options)
        THEN base @@ [options |-> SplitComma(a.options, 1, <<>>)]
        ELSE base

\* cli.py:83-91: the config record the new command assembles from literal
\* fields; the error when args.name is None and no --id is given.
LiteralConfigErr(a) ==
    IF Falsy(a.id) /\ a.name = None
    THEN Raise("AttributeError", "'NoneType' object has no attribute 'lower'", <<>>)
    ELSE NoErr

LiteralConfig(a) ==
    [type |-> a.type,
     name |-> a.name,
     id |-> IF ~Falsy(a.id) THEN a.id
            ELSE S("org.inkscape.") \o Str(a.type) \o S(".")
                     \o Replace(Lower(a.name), " ", "_"),
     author |-> a.author,
     email |-> a.email,
     description |-> a.description,
     parameters |-> <<>>]

\* ---------------------------------------------------------------- inputs
NameAlphabet == {"G", " ", "-"}
Names == SeqsUpTo(NameAlphabet, MaxNameLen)
ExplicitId == S("com.acme.custom")

NoPath == [file |-> "", suffix |-> ""]
ConfigPaths == {[file |-> "cfg", suffix |-> x] : x \in {".json", ".yaml", ".txt"}}
CfgJson == [file |-> "cfg", suffix |-> ".json"]

\* Parameter records as a configuration file holds them.
PWidth == [name |-> S("width"), type |-> S("int"), min |-> <<0>>, max |-> <<100>>]
PBad == [name |-> S("bad"), type |-> S("int"), min |-> <<10>>, max |-> <<1>>]
PMode == [name |-> S("mode"), type |-> S("optiongroup")]
PTab == [name |-> S("tab"), type |-> S("color")]
PNoName == [type |-> S("int")]
PNotebook ==
    [name |-> S("tabs"), type |-> S("notebook"), gui_text |-> S("Tabs"),
     options |-> <<S("A"), S("b")>>,
     pages |-> <<[name |-> S("canvas"), gui_text |-> S("Canvas")]>>]
ParamRecords == {PWidth, PBad, PMode, PTab, PNoName}
ParamObjects == {ParameterCtor(r) : r \in {PWidth, PBad, PMode, PTab, PNotebook}}

\* Configuration records as a configuration file holds them.
FileRecords ==
    {n @@ ty @@ i @@ ps :
        n \in {EmptyDict} \cup {[name |-> x] : x \in {<<>>, <<"G", " ">>, None}},
        ty \in {EmptyDict} \cup {[type |-> x] : x \in {S("render"), S("bogus")}},
        i \in {EmptyDict, [id |-> ExplicitId]},
        ps \in {EmptyDict} \cup {[parameters |-> x] : x \in SeqsUpTo(ParamRecords, MaxParams)}}

\* The keyword arguments of a direct construction, ExtensionConfig(name=..., ...).
DirectData ==
    {[name |-> n] @@ ty @@ i @@ [parameters |-> ps] :
        n \in Names,
        ty \in {EmptyDict, [type |-> S("render")]},
        i \in {EmptyDict, [id |-> ExplicitId]},
        ps \in SeqsUpTo(ParamObjects, MaxParams)}

\* Parameters constructed directly, for Parameter.validate().
DirectParams ==
    {ParameterCtor([name |-> S("p"), type |-> ty, min |-> lo, max |-> hi,
                    options |-> os, pages |-> pgs]) :
        ty \in ParamTypes \cup {S("color")},
        lo \in {NoneNum, <<0>>, <<10>>},
        hi \in {NoneNum, <<1>>, <<100>>},
        os \in {<<>>, <<S("A")>>},
        pgs \in {<<>>, <<[name |-> S("canvas"), gui_text |-> S("Canvas")]>>}}

\* Template trees.
TMain == << <<"{{ext_name}}", ".py", ".j2">> >>
TNested == << <<"lib">>, <<"util", ".py", ".j2">> >>
SLicense == << <<"LICENSE">> >>
SNested == << <<"lib">>, <<"data", ".txt">> >>
RelFiles == {TMain, TNested, SLicense, SNested, ExtensionJson}
SetNames == {S("basic_effect"), S("render"), S("effect")}
AllTrees ==
    [dirs : SUBSET SetNames, files : SUBSET RelFiles, root : SUBSET {TMain, TNested}]
FocusTrees ==
    {[dirs |-> SetNames, files |-> RelFiles, root |-> {TMain, TNested}],
     [dirs |-> {S("basic_effect")}, files |-> RelFiles, root |-> {TMain, TNested}],
     [dirs |-> {}, files |-> {}, root |-> {}]}
NoTree == [dirs |-> {}, files |-> {}, root |-> {}]

\* The arguments of the new command: literal fields, or a configuration file.
Templates == {None, S("basic_effect"), S("nosuch")}
LiteralArgs ==
    [config : {NoPath}, type : ExtensionTypes \cup {None}, name : Names \cup {None},
     id : {None, ExplicitId}, author : {None, S("Ada")}, email : {None},
     description : {None}, template : Templates]
FileArgs ==
    [config : {CfgJson}, type : {None}, name : {None}, id : {None}, author : {None},
     email : {None}, description : {None}, template : Templates]
NewInputs ==
    {[args |-> a, disk |-> EmptyDict] : a \in LiteralArgs}
        \cup {[args |-> a, disk |-> (CfgJson :> JsonDump(r))] :
                 a \in FileArgs, r \in FileRecords}
FocusNewInputs ==
    {x \in NewInputs :
        /\ x.args.template \in {None, S("nosuch")}
        /\ \/ /\ x.args.config = NoPath
              /\ x.args.name \in {<<"G">>, <<>>}
              /\ x.args.type \in {None, S("effect"), S("render")}
              /\ x.args.id = ExplicitId
              /\ x.args.author = None
           \/ /\ x.args.config # NoPath
              /\ x.disk[CfgJson] \in
                     {JsonDump([name |-> <<"G", " ">>, parameters |-> <<PBad>>]),
                      JsonDump([name |-> <<"G", " ">>, parameters |-> <<PWidth>>])}}

\* The arguments of the param command.
ParamArgs ==
    [name : {<<"r">>, <<"r", "_", "r">>}, type : ParamTypes,
     gui_text : {None}, gui_description : {None},
     default : {None, S("5")}, min : {None, S("0")}, max : {None, S("9")},
     options : {None, <<"A", ",", " ", "b">>}, appearance : {S("full")}]

\* ---------------------------------------------------------------- state
VARIABLES
    cmd,            \* the command or library call of this run
    pc,             \* where the run stands
    args,           \* the arguments of the command
    tmpl,           \* the templates root
    disk,           \* the configuration files on disk
    param,          \* the Parameter under Parameter.validate()
    config,         \* the ExtensionConfig in memory (builder.config)
    loaded,         \* what load_config returned
    template_name,  \* builder.template_name
    todo_t,         \* templated files still to render
    todo_s,         \* static items still to copy
    out,            \* the output directory: [exists, files]
    err,            \* the exception that ended the run, NoErr when none
    stdout          \* what was printed

vars ==
    <<cmd, pc, args, tmpl, disk, param, config, loaded, template_name,
      todo_t, todo_s, out, err, stdout>>

NoConfig == [cls |-> "NoneType"]
NoParam == [cls |-> "NoneType"]
NoArgs == [config |-> NoPath]

InitRest ==
    /\ pc = "start"
    /\ loaded = NoConfig
    /\ template_name = None
    /\ todo_t = {}
    /\ todo_s = {}
    /\ out = [exists |-> FALSE, files |-> EmptyDict]
    /\ err = NoErr
    /\ stdout = <<>>

InitNew ==
    /\ cmd = "new"
    /\ \E x \in (NewInputs \X FocusTrees) \cup (FocusNewInputs \X AllTrees) :
        /\ args = x[1].args
        /\ disk = x[1].disk
        /\ tmpl = x[2]
    /\ param = NoParam
    /\ config = NoConfig

InitParam ==
    /\ cmd = "param"
    /\ args \in ParamArgs
    /\ disk = EmptyDict
    /\ tmpl = NoTree
    /\ param = NoParam
    /\ config = NoConfig

InitValidate ==
    /\ cmd = "validate"
    /\ \E path \in ConfigPaths, r \in FileRecords, exists \in BOOLEAN :
        /\ args = [config |-> path]
        /\ disk = IF exists THEN (path :> JsonDump(r)) ELSE EmptyDict
    /\ tmpl = NoTree
    /\ param = NoParam
    /\ config = NoConfig

InitParameterValidate ==
    /\ cmd = "Parameter.validate"
    /\ args = NoArgs
    /\ disk = EmptyDict
    /\ tmpl = NoTree
    /\ param \in DirectParams
    /\ config = NoConfig

InitRoundTrip ==
    /\ cmd = "save_load"
    /\ \E path \in ConfigPaths, d \in DirectData :
        /\ args = [config |-> path, data |-> d]
        /\ config = ConfigCtor(d)
    /\ disk = EmptyDict
    /\ tmpl = NoTree
    /\ param = NoParam

Init ==
    /\ InitRest
    /\ \/ InitNew
       \/ InitParam
       \/ InitValidate
       \/ InitParameterValidate
       \/ InitRoundTrip

Fail(e) ==
    /\ pc' = "error"
    /\ err' = e

\* ---------------------------------------------------------------- new
\* cli.py:77-93: load or assemble the configuration, construct the builder.
NewCommand ==
    /\ cmd = "new"
    /\ pc = "start"
    /\ LET fromFile == args.config # NoPath
           e1 == IF fromFile THEN LoadConfigErr(disk, args.config)
                 ELSE LiteralConfigErr(args)
           cfg == IF fromFile THEN LoadConfig(disk, args.config)
                  ELSE LiteralConfig(args)
       IN  IF e1 # NoErr
           THEN Fail(e1) /\ UNCHANGED <<config, template_name>>
           ELSE IF BuilderInitErr(cfg) # NoErr
           THEN Fail(BuilderInitErr(cfg)) /\ UNCHANGED <<config, template_name>>
           ELSE /\ config' = BuilderConfig(cfg)
                /\ template_name' = ResolveTemplate(args.template, BuilderConfig(cfg))
                /\ pc' = "constructed"
                /\ err' = err
    /\ UNCHANGED <<cmd, args, tmpl, disk, param, loaded, todo_t, todo_s, out, stdout>>

\* builder.py:63-80: create the output directory, find the template set,
\* prepare the context.
BuildBegin ==
    /\ cmd = "new"
    /\ pc = "constructed"
    /\ out' = [out EXCEPT !.exists = TRUE]
    /\ IF template_name \notin tmpl.dirs
       THEN /\ Fail(Raise("ValueError", "Template 'x' not found", <<template_name>>))
            /\ UNCHANGED <<todo_t, todo_s>>
       ELSE IF config.name = None
       THEN /\ Fail(Raise("AttributeError",
                          "'NoneType' object has no attribute 'lower'", <<>>))
            /\ UNCHANGED <<todo_t, todo_s>>
       ELSE /\ todo_t' = TemplateFiles(tmpl.files)
            /\ todo_s' = StaticItems(tmpl.files)
            /\ pc' = "build"
            /\ err' = err
    /\ UNCHANGED <<cmd, args, tmpl, disk, param, config, loaded, template_name, stdout>>

\* builder.py:82-102: one iteration of the loop over rglob('*.j2').  The
\* loader searches the templates root, not the set directory.
RenderTemplate ==
    /\ cmd = "new"
    /\ pc = "build"
    /\ \E f \in todo_t :
        IF f \notin tmpl.root
        THEN /\ Fail(Raise("TemplateNotFound", "", <<>>))
             /\ UNCHANGED <<todo_t, out>>
        ELSE /\ out' = [out EXCEPT !.files =
                           WriteFile(@, OutputFile(f), Rendered(f, PrepareContext(config)))]
             /\ todo_t' = todo_t \ {f}
             /\ UNCHANGED <<pc, err>>
    /\ UNCHANGED <<cmd, args, tmpl, disk, param, config, loaded, template_name,
                   todo_s, stdout>>

\* builder.py:104-109: one iteration of the loop over iterdir().
CopyStatic ==
    /\ cmd = "new"
    /\ pc = "build"
    /\ todo_t = {}
    /\ \E f \in todo_s :
        /\ out' = [out EXCEPT !.files = WriteFile(@, <<f[1]>>, Bytes(template_name, f))]
        /\ todo_s' = todo_s \ {f}
    /\ UNCHANGED <<cmd, pc, args, tmpl, disk, param, config, loaded, template_name,
                   todo_t, err, stdout>>

\* builder.py:111-117: persist the configuration, report success.
SaveConfiguration ==
    /\ cmd = "new"
    /\ pc = "build"
    /\ todo_t = {}
    /\ todo_s = {}
    /\ out' = [out EXCEPT !.files = WriteFile(@, ExtensionJson, ConfigJson(config))]
    /\ stdout' = Append(stdout, S("Extension built successfully"))
    /\ pc' = "done"
    /\ UNCHANGED <<cmd, args, tmpl, disk, param, config, loaded, template_name,
                   todo_t, todo_s, err>>

\* ---------------------------------------------------------------- param
\* cli.py:96-114.
ParamCommand ==
    /\ cmd = "param"
    /\ pc = "start"
    /\ IF BuilderInitErr(EmptyDict) # NoErr
       THEN Fail(BuilderInitErr(EmptyDict)) /\ UNCHANGED stdout
       ELSE /\ stdout' = Append(stdout, GenerateParameter(ParamConfig(args)))
            /\ pc' = "done"
            /\ err' = err
    /\ UNCHANGED <<cmd, args, tmpl, disk, param, config, loaded, template_name,
                   todo_t, todo_s, out>>

\* ---------------------------------------------------------------- validate
\* cli.py:134-141: load, validate, report; any exception is caught and the
\* process exits with status 1.
ValidateCommand ==
    /\ cmd = "validate"
    /\ pc = "start"
    /\ LET e1 == LoadConfigErr(disk, args.config)
           c == LoadConfig(disk, args.config)
       IN  IF e1 # NoErr
           THEN /\ err' = e1
                /\ pc' = "exit1"
                /\ stdout' = Append(stdout, S("Validation error"))
                /\ loaded' = loaded
           ELSE /\ loaded' = c
                /\ err' = ConfigValidate(c)
                /\ pc' = IF ConfigValidate(c) = NoErr THEN "done" ELSE "exit1"
                /\ stdout' = Append(stdout,
                                    IF ConfigValidate(c) = NoErr
                                    THEN S("Configuration is valid!")
                                    ELSE S("Validation error"))
    /\ UNCHANGED <<cmd, args, tmpl, disk, param, config, template_name,
                   todo_t, todo_s, out>>

\* Parameter.validate() called on a parameter.
ParameterValidateCall ==
    /\ cmd = "Parameter.validate"
    /\ pc = "start"
    /\ err' = ParameterValidate(param)
    /\ pc' = IF ParameterValidate(param) = NoErr THEN "done" ELSE "error"
    /\ UNCHANGED <<cmd, args, tmpl, disk, param, config, loaded, template_name,
                   todo_t, todo_s, out, stdout>>

\* ---------------------------------------------------------------- save, load
\* save_config(config, path).
SaveConfigCall ==
    /\ cmd = "save_load"
    /\ pc = "start"
    /\ disk' = SaveConfig(disk, config, args.config)
    /\ pc' = "saved"
    /\ UNCHANGED <<cmd, args, tmpl, param, config, loaded, template_name,
                   todo_t, todo_s, out, err, stdout>>

\* load_config(path) of the file just saved.
LoadConfigCall ==
    /\ cmd = "save_load"
    /\ pc = "saved"
    /\ IF LoadConfigErr(disk, args.config) # NoErr
       THEN Fail(LoadConfigErr(disk, args.config)) /\ loaded' = loaded
       ELSE /\ loaded' = LoadConfig(disk, args.config)
            /\ pc' = "done"
            /\ err' = err
    /\ UNCHANGED <<cmd, args, tmpl, disk, param, config, template_name,
                   todo_t, todo_s, out, stdout>>

Next ==
    \/ NewCommand
    \/ BuildBegin
    \/ RenderTemplate
    \/ CopyStatic
    \/ SaveConfiguration
    \/ ParamCommand
    \/ ValidateCommand
    \/ ParameterValidateCall
    \/ SaveConfigCall
    \/ LoadConfigCall

Spec == Init /\ [][Next]_vars

\* ---------------------------------------------------------------- claims
Finished == pc \in {"done", "error", "exit1"}
Constructed == cmd = "new" /\ pc \in {"constructed", "build", "done"}

\* C1: a build started by the new command with a configuration that fails
\* validation writes no output file and ends in the validation error.
C1_NewValidatesBeforeRender ==
    (Constructed /\ ConfigValidate(config) # NoErr)
        => /\ DOMAIN out.files = {}
           /\ pc # "done"

\* C2: when the requested template set does not exist and the default set
\* does, the build does not fail on the missing set; it completes with a
\* warning and a non-empty output tree.
C2_FallbackToDefaultSet ==
    (cmd = "new" /\ out.exists /\ template_name \notin tmpl.dirs
        /\ S("basic_effect") \in tmpl.dirs)
        => /\ err.text # "Template 'x' not found"
           /\ pc = "done" => (DOMAIN out.files # {} /\ S("warning") \in Range(stdout))

\* C3: the template set is the explicit name when one is given, else "render"
\* for type render and "basic_effect" for every other type.
C3_TemplateSetResolution ==
    Constructed
        => template_name =
               IF ~Falsy(args.template) THEN args.template
               ELSE IF config.type = S("render") THEN S("render")
               ELSE S("basic_effect")

\* C4: ExtensionConfig.validate() fails on an empty name or a type outside the
\* enum; otherwise it raises the failure of the first invalid parameter in
\* sequence order, and that error names the offending parameter.
InvalidIndexes(c) ==
    {i \in 1..Len(c.parameters) : ParameterValidate(c.parameters[i]) # NoErr}
FirstInvalid(c) ==
    c.parameters[CHOOSE i \in InvalidIndexes(c) : \A j \in InvalidIndexes(c) : i <= j]

C4_ConfigValidateFirstFailureNamed ==
    (cmd = "validate" /\ Finished /\ loaded # NoConfig)
        => IF loaded.name \in {None, <<>>}
              \/ loaded.type \notin {S("effect"), S("input"), S("output"),
                                     S("render"), S("custom")}
           THEN err # NoErr
           ELSE IF InvalidIndexes(loaded) = {}
           THEN err = NoErr
           ELSE /\ err = ParameterValidate(FirstInvalid(loaded))
                /\ FirstInvalid(loaded).name \in Range(err.args)

\* C5: Parameter.validate() fails exactly when the kind is not one of the six
\* recognised kinds, or an optiongroup has no options, or a notebook has no
\* pages, or both bounds are present and min > max; integer 0..100 passes,
\* min=10 max=1 fails; the parameter is left unchanged.
MustFail(p) ==
    \/ p.type \notin {S("int"), S("float"), S("string"), S("boolean"),
                      S("optiongroup"), S("notebook")}
    \/ p.type = S("optiongroup") /\ Len(p.options) = 0
    \/ p.type = S("notebook") /\ Len(p.pages) = 0
    \/ Len(p.min) = 1 /\ Len(p.max) = 1 /\ p.min[1] > p.max[1]

C5_Outcome ==
    (cmd = "Parameter.validate" /\ Finished)
        => /\ (err # NoErr) <=> MustFail(param)
           /\ (param.type = S("int") /\ param.min = <<0>> /\ param.max = <<100>>)
                  => err = NoErr
           /\ (param.min = <<10>> /\ param.max = <<1>>) => err # NoErr

C5_ParameterValidateExact ==
    /\ []C5_Outcome
    /\ [][cmd = "Parameter.validate" => param' = param]_vars

C5_Witness ==
    /\ cmd = "Parameter.validate"
    /\ pc = "error"
    /\ param.type = S("int")
    /\ param.min = <<10>>
    /\ param.max = <<1>>

\* C6: for every valid configuration c, load(save(c)) returns a configuration
\* equal to c in every attribute, its parameters Parameter instances in the
\* original order.
C6_RoundTrip ==
    (cmd = "save_load" /\ Finished /\ ConfigValidate(config) = NoErr
        /\ args.config.suffix \in {".json", ".yaml", ".yml"})
        => /\ pc = "done"
           /\ loaded = config
           /\ \A i \in 1..Len(loaded.parameters) :
                  /\ loaded.parameters[i].cls = "Parameter"
                  /\ loaded.parameters[i] = args.data.parameters[i]

C6_Witness ==
    /\ cmd = "save_load"
    /\ pc = "done"
    /\ ConfigValidate(config) = NoErr
    /\ Len(config.parameters) = 2
    /\ config.parameters[1] # config.parameters[2]
    /\ "id" \notin DOMAIN args.data
    /\ loaded = config

\* C7: a configuration created without an explicit id, whether constructed
\* directly, deserialized from a record or assembled by the new command, has
\* id = org.inkscape.<type>.<slug(name)>, slug lowercasing the name and turning
\* every space and hyphen into an underscore; an explicit id is kept.
Slug(name) ==
    [i \in 1..Len(name) |->
        IF name[i] \in {" ", "-"} THEN "_" ELSE IF name[i] = "G" THEN "g" ELSE name[i]]
ExpectedId(given, c) ==
    IF given # None /\ given # <<>> THEN given
    ELSE S("org.inkscape.") \o Str(c.type) \o S(".") \o Slug(c.name)

C7_DefaultIdDerivation ==
    /\ (Constructed /\ args.config = NoPath) => config.id = ExpectedId(args.id, config)
    /\ (Constructed /\ args.config # NoPath)
           => config.id = ExpectedId(Get(JsonLoad(disk[args.config]), "id", None), config)
    /\ (cmd = "validate" /\ loaded # NoConfig)
           => loaded.id = ExpectedId(Get(JsonLoad(disk[args.config]), "id", None), loaded)
    /\ cmd = "save_load" => config.id = ExpectedId(Get(args.data, "id", None), config)

\* C8: after a successful build every non-templated file of the template set,
\* at any depth, is in the output tree at the same relative path with the
\* same content.
C8_StaticFilesCopied ==
    (cmd = "new" /\ pc = "done")
        => \A f \in tmpl.files :
               ~IsTemplateFile(f)
                   => /\ f \in DOMAIN out.files
                      /\ out.files[f] = Bytes(template_name, f)

\* C9: a templated file is written under its name without the templating
\* suffix, except that the main script and the descriptor are written under
\* the slug of the extension name.
RoleStems == {"{{ext_name}}"}
ExpectedOutputFile(f, c) ==
    [i \in 1..Len(f) |->
        LET name == f[i]
            stripped == IF name[Len(name)] = ".j2" THEN SubSeq(name, 1, Len(name) - 1)
                        ELSE name
        IN  IF i = Len(f) /\ stripped[1] \in RoleStems
            THEN Slug(c.name) \o SubSeq(stripped, 2, Len(stripped))
            ELSE stripped]

C9_OutputFileNames ==
    (cmd = "new" /\ pc = "done")
        => \A f \in TemplateFiles(tmpl.files) :
               ExpectedOutputFile(f, config) \in DOMAIN out.files

\* C10: the param command with a name and a recognised type prints exactly one
\* descriptor fragment and does not end in an error.
C10_ParamCommandEmits ==
    (cmd = "param" /\ pc # "start")
        => /\ pc = "done"
           /\ err = NoErr
           /\ stdout = <<GenerateParameter(ParamConfig(args))>>

\* C11: a field that is not given takes its declared default: a configuration
\* built without an author, a description or a type (constructed directly,
\* deserialized, or assembled by the new command from literal fields) has
\* author "Anonymous", description "Inkscape Extension" and type effect.
HasDefaults(given, c) ==
    /\ Get(given, "author", None) = None => c.author = S("Anonymous")
    /\ Get(given, "description", None) = None => c.description = S("Inkscape Extension")
    /\ Get(given, "type", None) = None => c.type = S("effect")

C11_DeclaredDefaults ==
    /\ (Constructed /\ args.config = NoPath) => HasDefaults(args, config)
    /\ (Constructed /\ args.config # NoPath)
           => HasDefaults(JsonLoad(disk[args.config]), config)
    /\ (cmd = "validate" /\ loaded # NoConfig)
           => HasDefaults(JsonLoad(disk[args.config]), loaded)
    /\ cmd = "save_load" => HasDefaults(args.data, config)

\* C12: within one build every templated file is written before any static
\* file is copied and the persisted configuration is written after all of
\* them; in every completed build extension.json holds the serialized
\* configuration, also when the template set has a file of that name.
HasKind(k) == \E q \in DOMAIN out.files : out.files[q].kind = k
WritesKind(k) ==
    \E q \in DOMAIN out'.files :
        /\ out'.files[q].kind = k
        /\ q \in DOMAIN out.files => out.files[q] # out'.files[q]

C12_OrderedStep ==
    /\ WritesKind("rendered") => ~HasKind("bytes") /\ ~HasKind("json")
    /\ WritesKind("bytes") => todo_t = {} /\ ~HasKind("json")
    /\ WritesKind("json") => todo_t = {} /\ todo_s = {} /\ pc' = "done"
    /\ HasKind("json") => out' = out

C12_Completed ==
    (cmd = "new" /\ pc = "done")
        => /\ ExtensionJson \in DOMAIN out.files
           /\ out.files[ExtensionJson].kind = "json"
           /\ out.files[ExtensionJson].data = JsonDump(ToDict(config))
           /\ \A f \in TemplateFiles(tmpl.files) : OutputFile(f) \in DOMAIN out.files
           /\ \A f \in StaticItems(tmpl.files) : f \in DOMAIN out.files

C12_OrderedWrites ==
    /\ []C12_Completed
    /\ [][C12_OrderedStep]_vars

C12_Witness ==
    /\ cmd = "new"
    /\ pc = "done"
    /\ {TMain, TNested, SLicense, ExtensionJson} \subseteq tmpl.files
    /\ out.files[OutputFile(TMain)].kind = "rendered"
    /\ out.files[SLicense].kind = "bytes"
    /\ out.files[ExtensionJson].kind = "json"

====
